---- MODULE Spec2Model ----
(***************************************************************************)
(* Model of conf_test (src/src/lib.rs): ConfTest::run() and its helpers    *)
(* compile_test, run_test and get_extern_libs.                             *)
(*                                                                         *)
(* Strings that the code orders or converts (feature names) are sequences  *)
(* of byte values, so that BTreeSet order and to_uppercase() are computed. *)
(* Every subprocess call and file system access of run() is one step; the  *)
(* result of a subprocess or of a file system query is an input of the     *)
(* step that performs it.                                                  *)
(***************************************************************************)
EXTENDS Integers, Sequences, FiniteSets, TLC

VARIABLES
    env,            \* the process environment (read only)
    fs_lock,        \* TRUE iff CARGO_MANIFEST_DIR/Cargo.lock exists
    pc,             \* position of run()
    status,         \* "running", "returned", "exit0", "exit1", "panic"
    outputs,        \* Vec<String> outputs: one chunk (sequence of lines) per element
    flushed,        \* number of elements of outputs the final loop has consumed
    stdout,         \* lines written to standard output
    logfile,        \* lines written to OUT_DIR/conf_test/conf_test.log
    features,       \* BTreeSet of declared feature names
    dependencies,   \* BTreeSet of declared dependency names
    edition,        \* edition picked from the metadata
    lockfile_exists,\* local of run(): result of lockfile.exists()
    extern_libs,    \* BTreeMap id -> (name, filename)
    cargo,          \* the `cargo rustc` child: "none", "running", "closed" (its
                    \* stdout), "exited", "reaped"
    cargo_left,     \* messages the child has still to write
    pipe,           \* messages written by the child and not yet read
    todo,           \* features the for loop has not yet visited
    feature,        \* the feature of the current loop iteration
    test_features,  \* Vec<String> test_features
    trace           \* history: subprocess invocations and loop decisions

vars == <<env, fs_lock, pc, status, outputs, flushed, stdout, logfile, features,
          dependencies, edition, lockfile_exists, extern_libs, cargo,
          cargo_left, pipe, todo, feature, test_features, trace>>

-----------------------------------------------------------------------------
(* Bounds *)

\* at most this many packages in the metadata
MaxPackages == 2
\* at most this many messages on cargo's stdout
MaxMessages == 2
\* at most this many filenames per artifact
MaxFilenames == 2
\* messages the pipe between cargo and the reader can buffer
PipeCapacity == 1

-----------------------------------------------------------------------------
(* Names.  Bytes: 'A' = 65, '_' = 95, 'a' = 97 ... 'z' = 122 *)

NameA == <<65>>                                   \* "A"
Name_a == <<97>>                                  \* "a"
NameDocsRs == <<100, 111, 99, 115, 95, 114, 115>> \* "docs_rs"
NameDOCS_RS == <<68, 79, 67, 83, 95, 82, 83>>     \* "DOCS_RS"
NoFeature == <<>>

FeatureNames == {NameA, Name_a, NameDocsRs}
\* suffixes X of the variables CARGO_FEATURE_X the environment may hold
EnvFeatureVars == {NameA, NameDOCS_RS}
DependencyNames == {"libc"}
TargetNames == {"libc", "build-script-build"}
Stems == {"liblibc-1f"}
Extensions == {"rlib", "rmeta", "so", "none"}
Editions == {"2021", "2024"}

\* String::to_uppercase on ASCII
to_uppercase(s) ==
    [i \in 1..Len(s) |-> IF s[i] \in 97..122 THEN s[i] - 32 ELSE s[i]]

\* Ord for String: bytewise lexicographic
RECURSIVE LexLess(_, _)
LexLess(s, t) ==
    IF s = <<>> THEN t # <<>>
    ELSE IF t = <<>> THEN FALSE
    ELSE IF Head(s) # Head(t) THEN Head(s) < Head(t)
    ELSE LexLess(Tail(s), Tail(t))

\* first element of a BTreeSet<String> iteration
First(S) == CHOOSE x \in S : \A y \in S \ {x} : LexLess(x, y)

-----------------------------------------------------------------------------
(* Diagnostic lines.  by = "conf_test" for a line run() formats itself,    *)
(* "probe" for a line of a probe's captured stdout.                        *)

Line(k, f, b) == [k |-> k, f |-> f, by |-> b]
Own(k, f) == <<Line(k, f, "conf_test")>>

\* what a successful probe may have printed (Detailed Control: tests can
\* emit instructions to cargo on stdout)
ProbeStdouts ==
    { <<>>,
      <<Line("cfg", Name_a, "probe")>> }      \* cargo:rustc-cfg=feature="a"

\* an entry of the history: op is the kind of step, f the feature it concerns,
\* cfg and libs the --cfg features and --extern libraries of a compilation,
\* out what a probe wrote to its stdout, ok whether the step succeeded
Event(op, f, cfg, libs, out, ok) ==
    [op |-> op, f |-> f, cfg |-> cfg, libs |-> libs, out |-> out, ok |-> ok]
Did(op, ok) == Event(op, <<>>, <<>>, <<>>, <<>>, ok)
Saw(op, f) == Event(op, f, <<>>, <<>>, <<>>, TRUE)


-----------------------------------------------------------------------------
(* Inputs *)

EnvInhibit == {"absent", "skip", "stop", "fail", "bogus"}

Environments ==
    [ CONF_TEST_INHIBIT : EnvInhibit,
      DOCS_RS : BOOLEAN,
      OUT_DIR : BOOLEAN,
      CARGO_MANIFEST_DIR : BOOLEAN,
      CARGO_FEATURE : SUBSET EnvFeatureVars ]

StaleLog == <<Line("stale", NoFeature, "conf_test")>>

\* one package of the metadata
Packages ==
    [ edition : Editions,
      features : SUBSET FeatureNames,
      dependencies : SUBSET DependencyNames ]

PackageLists ==
    UNION { [1..n -> Packages] : n \in 0..MaxPackages }

RECURSIVE AllFeatures(_)
AllFeatures(pkgs) ==
    IF pkgs = <<>> THEN {}
    ELSE Head(pkgs).features \cup AllFeatures(Tail(pkgs))

RECURSIVE AllDependencies(_)
AllDependencies(pkgs) ==
    IF pkgs = <<>> THEN {}
    ELSE Head(pkgs).dependencies \cup AllDependencies(Tail(pkgs))

FirstEdition(pkgs) == IF pkgs = <<>> THEN "none" ELSE pkgs[1].edition

Files == [stem : Stems, ext : Extensions]

FilenameLists == UNION { [1..n -> Files] : n \in 0..MaxFilenames }

\* what cargo may write: the artifacts of a dependency with any files, the
\* artifact of another target, a message of another kind, a line that does
\* not parse
Messages ==
    [type : {"artifact"}, name : DependencyNames, filenames : FilenameLists]
    \cup [type : {"artifact"}, name : TargetNames \ DependencyNames,
          filenames : {<<[stem |-> s, ext |-> "rlib"]>> : s \in Stems}]
    \cup [type : {"other", "error"}, name : {"libc"}, filenames : {<<>>}]

NoLibs == <<>>

-----------------------------------------------------------------------------
(* State after process start, before run() is called *)

Init ==
    /\ env \in Environments
    /\ fs_lock \in BOOLEAN
    /\ pc = "gate"
    /\ status = "running"
    /\ outputs = <<>>
    /\ flushed = 0
    /\ stdout = <<>>
    /\ logfile \in {<<>>, StaleLog}
    /\ features = {}
    /\ dependencies = {}
    /\ edition = "none"
    /\ lockfile_exists = FALSE
    /\ extern_libs = NoLibs
    /\ cargo = "none"
    /\ cargo_left = 0
    /\ pipe = <<>>
    /\ todo = {}
    /\ feature = NoFeature
    /\ test_features = <<>>
    /\ trace = <<>>

Panic ==
    /\ status' = "panic"
    /\ pc' = "done"

-----------------------------------------------------------------------------
(* run(): the inhibition gate, lib.rs 156-169 *)

\* variant: the skip branch prints its line but does not return
InhibitGate_SkipFallsThrough(inhibit) ==
    CASE inhibit \in {"absent", "skip"} ->
              [print |-> IF inhibit = "skip" THEN Own("warning_skip", NoFeature) ELSE <<>>,
               status |-> "running", pc |-> "out_dir"]
      [] inhibit = "stop" -> [print |-> <<>>, status |-> "exit0", pc |-> "done"]
      [] inhibit = "fail" -> [print |-> Own("warning_fail", NoFeature),
                              status |-> "exit1", pc |-> "done"]
      [] OTHER -> [print |-> <<>>, status |-> "panic", pc |-> "done"]

\* variant: stop prints a warning as fail does
InhibitGate_StopWarns(inhibit) ==
    CASE inhibit = "absent" -> [print |-> <<>>, status |-> "running", pc |-> "out_dir"]
      [] inhibit = "skip" -> [print |-> Own("warning_skip", NoFeature),
                              status |-> "returned", pc |-> "done"]
      [] inhibit = "stop" -> [print |-> Own("warning_stop", NoFeature),
                              status |-> "exit0", pc |-> "done"]
      [] inhibit = "fail" -> [print |-> Own("warning_fail", NoFeature),
                              status |-> "exit1", pc |-> "done"]
      [] OTHER -> [print |-> <<>>, status |-> "panic", pc |-> "done"]

\* variant: an unknown value is ignored
InhibitGate_UnknownProceeds(inhibit) ==
    CASE inhibit = "skip" -> [print |-> Own("warning_skip", NoFeature),
                              status |-> "returned", pc |-> "done"]
      [] inhibit = "stop" -> [print |-> <<>>, status |-> "exit0", pc |-> "done"]
      [] inhibit = "fail" -> [print |-> Own("warning_fail", NoFeature),
                              status |-> "exit1", pc |-> "done"]
      [] OTHER -> [print |-> <<>>, status |-> "running", pc |-> "out_dir"]

\* what the gate does for a value of CONF_TEST_INHIBIT: the line it prints,
\* how the process goes on
InhibitGate(inhibit) ==
    CASE inhibit = "absent" -> [print |-> <<>>, status |-> "running", pc |-> "out_dir"]
      [] inhibit = "skip" -> [print |-> Own("warning_skip", NoFeature),
                              status |-> "returned", pc |-> "done"]
      [] inhibit = "stop" -> [print |-> <<>>, status |-> "exit0", pc |-> "done"]
      [] inhibit = "fail" -> [print |-> Own("warning_fail", NoFeature),
                              status |-> "exit1", pc |-> "done"]
      [] OTHER -> [print |-> <<>>, status |-> "panic", pc |-> "done"]

Gate ==
    /\ UNCHANGED <<cargo, cargo_left, pipe>>
    /\ pc = "gate" /\ status = "running"
    /\ LET g == InhibitGate(env.CONF_TEST_INHIBIT) IN
         /\ stdout' = stdout \o g.print
         /\ status' = g.status
         /\ pc' = g.pc
    /\ UNCHANGED <<env, fs_lock, outputs, flushed, logfile, features, dependencies,
                   edition, lockfile_exists, extern_libs, todo, feature,
                   test_features, trace>>

\* variant: a missing OUT_DIR is replaced by a default instead of panicking
expect_out_dir_Default(e) == [panic |-> FALSE]

\* env("OUT_DIR").expect("env var OUT_DIR is not set"), lib.rs 175
expect_out_dir(e) == [panic |-> ~e.OUT_DIR]

(* run(): outputs, OUT_DIR and the staging directory, lib.rs 171-185 *)
StageOutDir ==
    /\ UNCHANGED <<cargo, cargo_left, pipe>>
    /\ pc = "out_dir" /\ status = "running"
    /\ \E created \in BOOLEAN :
         IF expect_out_dir(env).panic
         THEN Panic /\ UNCHANGED outputs
         ELSE /\ outputs' = <<Own("out_dir", NoFeature)>>
              /\ IF created THEN pc' = "logfile" /\ UNCHANGED status
                            ELSE Panic
    /\ UNCHANGED <<env, fs_lock, flushed, stdout, logfile, features, dependencies,
                   edition, lockfile_exists, extern_libs, todo, feature,
                   test_features, trace>>

(* run(): File::create of the log file, lib.rs 187-191 *)
CreateLogfile ==
    /\ UNCHANGED <<cargo, cargo_left, pipe>>
    /\ pc = "logfile" /\ status = "running"
    /\ \E created \in BOOLEAN :
         IF created
         THEN /\ logfile' = <<>>
              /\ pc' = "metadata"
              /\ UNCHANGED status
         ELSE Panic /\ UNCHANGED logfile
    /\ UNCHANGED <<env, fs_lock, outputs, flushed, stdout, features, dependencies,
                   edition, lockfile_exists, extern_libs, todo, feature,
                   test_features, trace>>

(* run(): the metadata query and the collection loop, lib.rs 193-213 *)
ReadMetadata ==
    /\ UNCHANGED <<cargo, cargo_left, pipe>>
    /\ pc = "metadata" /\ status = "running"
    /\ \/ /\ Panic      \* exec() failed or its output did not parse
          /\ trace' = Append(trace, Did("metadata", FALSE))
          /\ UNCHANGED <<features, dependencies, edition, todo>>
       \/ \E pkgs \in PackageLists :
            /\ features' = AllFeatures(pkgs)
            /\ dependencies' = AllDependencies(pkgs)
            /\ edition' = FirstEdition(pkgs)
            /\ todo' = AllFeatures(pkgs)
            /\ trace' = Append(trace, Did("metadata", TRUE))
            /\ pc' = "docs"
            /\ UNCHANGED status
    /\ UNCHANGED <<env, fs_lock, outputs, flushed, stdout, logfile, lockfile_exists,
                   extern_libs, feature, test_features>>

\* variant: the docs_rs feature is enabled without looking at the declared ones
DocsOutputs_Always(declared) ==
    <<Own("docs_rs", NoFeature), Own("cfg", NameDocsRs)>>

\* the lines pushed when DOCS_RS is set, lib.rs 216-219
DocsOutputs(declared) ==
    <<Own("docs_rs", NoFeature)>>
    \o (IF NameDocsRs \in declared THEN <<Own("cfg", NameDocsRs)>> ELSE <<>>)

(* run(): documentation mode and the lock file check, lib.rs 215-232 *)
DocsOrLockfile ==
    /\ UNCHANGED <<cargo, cargo_left, pipe>>
    /\ pc = "docs" /\ status = "running"
    /\ IF env.DOCS_RS
       THEN /\ outputs' = outputs \o DocsOutputs(features)
            /\ pc' = "flush"
            /\ UNCHANGED <<status, edition, lockfile_exists>>
       ELSE /\ edition' = IF edition = "none" THEN "2021" ELSE edition
            /\ IF ~env.CARGO_MANIFEST_DIR
               THEN Panic /\ UNCHANGED <<outputs, lockfile_exists>>
               ELSE /\ lockfile_exists' = fs_lock
                    /\ outputs' = Append(outputs, Own("lockfile", NoFeature))
                    /\ pc' = "spawn"
                    /\ UNCHANGED status
    /\ UNCHANGED <<env, fs_lock, flushed, stdout, logfile, features, dependencies,
                   extern_libs, todo, feature, test_features, trace>>

-----------------------------------------------------------------------------
(* get_extern_libs(), lib.rs 348-426 *)

\* a result of the loop body: the map, and whether the code panicked
Libs(libs) == [panic |-> FALSE, libs |-> libs]
Panicked == [panic |-> TRUE, libs |-> NoLibs]

\* the match on the extension of one filename, lib.rs 379-417
InsertFile(libs, name, file) ==
    LET id == file.stem
        entry == [name |-> name, file |-> file]
    IN CASE file.ext = "rlib" -> Libs((id :> entry) @@ libs)
         [] file.ext = "rmeta" ->
              IF id \in DOMAIN libs
              THEN IF libs[id].file.ext = "rlib" THEN Libs(libs)
                   ELSE Libs((id :> entry) @@ libs)
              ELSE Libs(libs)
         [] file.ext = "none" -> Panicked
         [] OTHER ->
              IF id \in DOMAIN libs
              THEN IF libs[id].file.ext \in {"rmeta", "rlib"} THEN Libs(libs)
                   ELSE Libs((id :> entry) @@ libs)
              ELSE Libs(libs)

\* for filename in artifact.filenames, lib.rs 378-418
RECURSIVE InsertFiles(_, _, _)
InsertFiles(libs, name, files) ==
    IF files = <<>> THEN Libs(libs)
    ELSE LET next == InsertFile(libs, name, Head(files))
         IN IF next.panic THEN Panicked
            ELSE InsertFiles(next.libs, name, Tail(files))

\* the body of the parse_stream loop for one message, lib.rs 376-420
Consume(libs, deps, m) ==
    CASE m.type = "error" -> Panicked
      [] m.type = "artifact" /\ m.name \in deps -> InsertFiles(libs, m.name, m.filenames)
      [] OTHER -> Libs(libs)

\* variant: wait for the child before reading its output
ResolverNext_WaitFirst(p) ==
    CASE p = "spawn" -> "wait"
      [] p = "wait" -> "read"
      [] OTHER -> "unlock"

\* the order of the steps of get_extern_libs: spawn, read the stream to its
\* end, then wait, lib.rs 358-425
ResolverNext(p) ==
    CASE p = "spawn" -> "read"
      [] p = "read" -> "wait"
      [] OTHER -> "unlock"

\* variant: a nonzero exit status of the child is fatal
wait_result_CheckStatus(waited, exit_code) == [panic |-> ~waited \/ exit_code # 0]

\* cargo.wait().expect(..): only a failure to wait panics, the exit status is
\* not looked at, lib.rs 423
wait_result(waited, exit_code) == [panic |-> ~waited]

(* spawn of `cargo rustc` with a piped stdout, lib.rs 349-373 *)
SpawnCargo ==
    /\ pc = "spawn" /\ status = "running"
    /\ \E spawned \in BOOLEAN, locks \in BOOLEAN, n \in 0..MaxMessages :
         /\ trace' = Append(trace, Did("cargo_rustc", spawned))
         /\ IF ~env.OUT_DIR \/ ~spawned
            THEN Panic /\ UNCHANGED <<extern_libs, fs_lock, cargo, cargo_left>>
            ELSE /\ extern_libs' = NoLibs
                 /\ fs_lock' = (fs_lock \/ locks)   \* cargo may write Cargo.lock
                 /\ cargo' = "running"
                 /\ cargo_left' = n
                 /\ pc' = ResolverNext("spawn")
                 /\ UNCHANGED status
    /\ UNCHANGED <<env, outputs, flushed, stdout, logfile, features, dependencies,
                   edition, lockfile_exists, pipe, todo, feature, test_features>>

(* the child writes one message to its stdout; it blocks while the pipe is full *)
CargoWrite ==
    /\ status = "running"
    /\ cargo = "running" /\ cargo_left > 0
    /\ Len(pipe) < PipeCapacity
    /\ \E m \in Messages : pipe' = Append(pipe, m)
    /\ cargo_left' = cargo_left - 1
    /\ UNCHANGED <<env, fs_lock, pc, status, outputs, flushed, stdout, logfile,
                   features, dependencies, edition, lockfile_exists, extern_libs,
                   cargo, todo, feature, test_features, trace>>

(* the child has written everything and closes its stdout *)
CargoClose ==
    /\ status = "running"
    /\ cargo = "running" /\ cargo_left = 0
    /\ cargo' = "closed"
    /\ UNCHANGED <<env, fs_lock, pc, status, outputs, flushed, stdout, logfile,
                   features, dependencies, edition, lockfile_exists, extern_libs,
                   cargo_left, pipe, todo, feature, test_features, trace>>

(* the child exits *)
CargoExit ==
    /\ status = "running"
    /\ cargo = "closed"
    /\ cargo' = "exited"
    /\ UNCHANGED <<env, fs_lock, pc, status, outputs, flushed, stdout, logfile,
                   features, dependencies, edition, lockfile_exists, extern_libs,
                   cargo_left, pipe, todo, feature, test_features, trace>>

(* one iteration of the parse_stream loop: the reader blocks while the pipe is
   empty, lib.rs 375-421 *)
ReadMessage ==
    /\ pc = "read" /\ status = "running"
    /\ pipe # <<>>
    /\ pipe' = Tail(pipe)
    /\ LET next == Consume(extern_libs, dependencies, Head(pipe))
       IN IF next.panic
          THEN Panic /\ UNCHANGED <<extern_libs>>
          ELSE /\ extern_libs' = next.libs
               /\ UNCHANGED <<pc, status>>
    /\ UNCHANGED <<env, fs_lock, outputs, flushed, stdout, logfile, features,
                   dependencies, edition, lockfile_exists, cargo, cargo_left, todo,
                   feature, test_features, trace>>

(* the stream is at its end: the pipe is empty and the child closed it,
   lib.rs 375, 421 *)
EndOfStream ==
    /\ pc = "read" /\ status = "running"
    /\ pipe = <<>> /\ cargo \in {"closed", "exited"}
    /\ pc' = ResolverNext("read")
    /\ UNCHANGED <<env, fs_lock, status, outputs, flushed, stdout, logfile, features,
                   dependencies, edition, lockfile_exists, extern_libs, cargo,
                   cargo_left, pipe, todo, feature, test_features, trace>>

(* cargo.wait() returns when the child has exited, lib.rs 423-425 *)
WaitCargo ==
    /\ pc = "wait" /\ status = "running"
    /\ cargo = "exited"
    /\ cargo' = "reaped"
    /\ \E waited \in BOOLEAN, exit_code \in {0, 101} :
         /\ trace' = Append(trace,
                IF waited THEN Did("cargo_exit", exit_code = 0)
                          ELSE Did("cargo_wait", FALSE))
         /\ IF wait_result(waited, exit_code).panic
            THEN Panic
            ELSE pc' = ResolverNext("wait") /\ UNCHANGED status
    /\ UNCHANGED <<env, fs_lock, outputs, flushed, stdout, logfile, features,
                   dependencies, edition, lockfile_exists, extern_libs, cargo_left, pipe, todo, feature, test_features>>

\* variant: the lock file is removed whether it was there before or not
should_remove_Always(existed) == TRUE

\* if !lockfile_exists, lib.rs 236
should_remove(existed) == ~existed

(* run(): removal of a lock file that was not there before, lib.rs 236-244;
   remove_file succeeds only on a file that exists, its result is only logged *)
RemoveLockfile ==
    /\ UNCHANGED <<cargo, cargo_left, pipe>>
    /\ pc = "unlock" /\ status = "running"
    /\ IF should_remove(lockfile_exists)
       THEN \E removed \in BOOLEAN :
              /\ removed => fs_lock
              /\ fs_lock' = (fs_lock /\ ~removed)
              /\ outputs' = Append(outputs,
                     Own(IF removed THEN "delete_lockfile_ok"
                                    ELSE "delete_lockfile_failed", NoFeature))
       ELSE UNCHANGED <<outputs, fs_lock>>
    /\ test_features' = <<>>
    /\ pc' = "loop"
    /\ UNCHANGED <<env, status, flushed, stdout, logfile, features, dependencies,
                   edition, lockfile_exists, extern_libs, todo, feature, trace>>

-----------------------------------------------------------------------------
(* run(): the feature loop, lib.rs 246-285 *)

\* variant: the variable is looked up without to_uppercase()
manually_set_NoUppercase(e, f) == f \in e.CARGO_FEATURE

\* env(format!("CARGO_FEATURE_{}", feature.to_uppercase())).is_some(), lib.rs 247
manually_set(e, f) == to_uppercase(f) \in e.CARGO_FEATURE

\* variant: the set is iterated in descending order
NextFeature_Last(S) == CHOOSE x \in S : \A y \in S \ {x} : LexLess(y, x)

\* the feature the iterator of `for feature in features` yields next, lib.rs 246
NextFeature(S) == First(S)

\* variant: the iterator does not advance
Remaining_Keep(S, f) == S

\* what the iterator still holds after it yielded f, lib.rs 246
Remaining(S, f) == S \ {f}

\* variant: the vector is overwritten instead of extended
EndIteration_Reset(tf, f) == <<f>>

\* variant: nothing is pushed at the end of an iteration
EndIteration_Skip(tf, f) == tf

\* the end of every iteration of the loop body, lib.rs 283-284
EndIteration(tf, f) == Append(tf, f)

\* test_features.push after a successful probe, lib.rs 267
PushEnabled(tf, f) == Append(tf, f)

\* variant: the loop over features is missing
CfgArgs_None(tf) == <<>>

\* compile_test: one --cfg feature="..." argument per element, lib.rs 333-337
CfgArgs(tf) == tf

\* variant: the directive is not generated
SuccessOutputs_NoDirective(f, captured) ==
    <<Own("exec_ok", f), captured>>

\* the lines run() generates for a probe that ran successfully, lib.rs 261-266
SuccessOutputs(f, captured) ==
    <<Own("exec_ok", f), Own("cfg", f), captured>>

\* run_test: Some(stdout) only when the status is success, lib.rs 294-301
run_test(result, captured) ==
    IF result = "ok" THEN [panic |-> FALSE, some |-> TRUE, stdout |-> captured]
    ELSE [panic |-> FALSE, some |-> FALSE, stdout |-> <<>>]

\* edition_to_str, lib.rs 429-436
edition_to_str(e) ==
    CASE e = "2015" -> "2015"
      [] e = "2018" -> "2018"
      [] e = "2021" -> "2021"
      [] OTHER -> "todo"

\* variant: output().unwrap() instead of output().ok()?
compile_test_Unwrap(e, ed, result) ==
    IF ~e.OUT_DIR \/ edition_to_str(ed) = "todo"
    THEN [panic |-> TRUE, invoked |-> FALSE, some |-> FALSE]
    ELSE [panic |-> (result = "spawn_failed"), invoked |-> TRUE, some |-> (result = "ok")]

\* compile_test: Some(out_file) only when rustc ran and succeeded; panics on a
\* missing OUT_DIR or an edition without a match arm, lib.rs 303-346
compile_test(e, ed, result) ==
    IF ~e.OUT_DIR \/ edition_to_str(ed) = "todo"
    THEN [panic |-> TRUE, invoked |-> FALSE, some |-> FALSE]
    ELSE [panic |-> FALSE, invoked |-> TRUE, some |-> (result = "ok")]

\* variant: the rerun-if-changed line is missing
ProbeHeader_NoWatch(f) == <<Own("checking", f), Own("exists", f)>>

\* the lines pushed before compile_test is called, lib.rs 248-254
ProbeHeader(f) == <<Own("checking", f), Own("exists", f), Own("rerun", f)>>

Blank == Own("blank", NoFeature)

(* head of an iteration up to the call of compile_test, lib.rs 246-254,
   and the branches without a probe, lib.rs 277-284 *)
Examine ==
    /\ UNCHANGED <<cargo, cargo_left, pipe>>
    /\ pc = "loop" /\ status = "running"
    /\ todo # {}
    /\ LET f == NextFeature(todo) IN
         /\ feature' = f
         /\ todo' = Remaining(todo, f)
         /\ IF manually_set(env, f)
            THEN /\ outputs' = outputs \o <<Own("manual", f), Blank>>
                 /\ test_features' = EndIteration(test_features, f)
                 /\ trace' = Append(trace, Saw("manual", f))
                 /\ UNCHANGED pc
            ELSE \E exists \in BOOLEAN :
                   IF exists
                   THEN /\ outputs' = outputs \o ProbeHeader(f)
                        /\ trace' = Append(trace, Saw("exists", f))
                        /\ pc' = "compile"
                        /\ UNCHANGED test_features
                   ELSE /\ outputs' = outputs \o
                             <<Own("checking", f), Own("absent", f), Blank>>
                        /\ test_features' = EndIteration(test_features, f)
                        /\ trace' = Append(trace, Saw("absent", f))
                        /\ UNCHANGED pc
    /\ UNCHANGED <<env, fs_lock, status, flushed, stdout, logfile, features,
                   dependencies, edition, lockfile_exists, extern_libs>>

(* compile_test and the compile-failure branch, lib.rs 255-259, 274-276,
   283-284, 303-346 *)
CompileTest ==
    /\ UNCHANGED <<cargo, cargo_left, pipe>>
    /\ pc = "compile" /\ status = "running"
    /\ \E result \in {"ok", "nonzero", "spawn_failed"} :
         LET r == compile_test(env, edition, result) IN
         /\ trace' = IF r.invoked
                     THEN Append(trace, Event("compile", feature,
                              CfgArgs(test_features), extern_libs, <<>>, r.some))
                     ELSE trace
         /\ CASE r.panic ->
                   Panic /\ UNCHANGED <<outputs, test_features>>
              [] ~r.panic /\ r.some ->
                   /\ outputs' = Append(outputs, Own("compile_ok", feature))
                   /\ pc' = "run"
                   /\ UNCHANGED <<status, test_features>>
              [] OTHER ->
                   /\ outputs' = outputs \o <<Own("compile_failed", feature), Blank>>
                   /\ test_features' = EndIteration(test_features, feature)
                   /\ pc' = "loop"
                   /\ UNCHANGED status
    /\ UNCHANGED <<env, fs_lock, flushed, stdout, logfile, features, dependencies,
                   edition, lockfile_exists, extern_libs, todo, feature>>

(* run_test and both of its branches, lib.rs 260-273, 283-284, 294-301 *)
RunTest ==
    /\ UNCHANGED <<cargo, cargo_left, pipe>>
    /\ pc = "run" /\ status = "running"
    /\ \E result \in {"ok", "nonzero", "spawn_failed"}, captured \in ProbeStdouts :
         LET r == run_test(result, captured) IN
         /\ trace' = Append(trace,
                Event("run", feature, <<>>, <<>>,
                      IF result = "spawn_failed" THEN <<>> ELSE captured, r.some))
         /\ CASE r.panic ->
                   Panic /\ UNCHANGED <<outputs, test_features>>
              [] ~r.panic /\ r.some ->
                   /\ outputs' = outputs \o SuccessOutputs(feature, r.stdout) \o <<Blank>>
                   /\ test_features' =
                          EndIteration(PushEnabled(test_features, feature), feature)
                   /\ pc' = "loop"
                   /\ UNCHANGED status
              [] OTHER ->
                   /\ outputs' = outputs \o <<Own("exec_failed", feature), Blank>>
                   /\ test_features' = EndIteration(test_features, feature)
                   /\ pc' = "loop"
                   /\ UNCHANGED status
    /\ UNCHANGED <<env, fs_lock, flushed, stdout, logfile, features,
                   dependencies, edition, lockfile_exists, extern_libs, todo,
                   feature>>

(* the for loop is exhausted, lib.rs 285-286 *)
LoopEnd ==
    /\ UNCHANGED <<cargo, cargo_left, pipe>>
    /\ pc = "loop" /\ status = "running"
    /\ todo = {}
    /\ pc' = "flush"
    /\ UNCHANGED <<env, fs_lock, status, outputs, flushed, stdout, logfile, features,
                   dependencies, edition, lockfile_exists, extern_libs, todo,
                   feature, test_features, trace>>

-----------------------------------------------------------------------------
(* run(): the output loop, lib.rs 288-292 *)

\* the lines of a sequence of chunks
RECURSIVE Flatten(_)
Flatten(chunks) ==
    IF chunks = <<>> THEN <<>> ELSE Head(chunks) \o Flatten(Tail(chunks))

\* variant: the element at which the loop stops is written as well
Written_OneMore(chunks, n) ==
    Flatten(SubSeq(chunks, 1, IF n < Len(chunks) THEN n + 1 ELSE n - 1))

\* the chunks 1..n of a sequence of chunks, as lines
Written(chunks, n) == Flatten(SubSeq(chunks, 1, n))

\* the whole loop: for every element write_all to the log file, then print!;
\* the unwrap of a failed write_all panics after n elements were written
Flush ==
    /\ UNCHANGED <<cargo, cargo_left, pipe>>
    /\ pc = "flush" /\ status = "running"
    /\ \E n \in 0..Len(outputs) :
         /\ logfile' = logfile \o Written(outputs, n)
         /\ stdout' = stdout \o Written(outputs, n)
         /\ flushed' = n
         /\ IF n = Len(outputs)
            THEN status' = "returned" /\ pc' = "done"   \* run() returns to build.rs
            ELSE Panic
    /\ UNCHANGED <<env, fs_lock, outputs, features, dependencies, edition,
                   lockfile_exists, extern_libs, todo, feature, test_features,
                   trace>>

-----------------------------------------------------------------------------

Next ==
    \/ Gate
    \/ StageOutDir
    \/ CreateLogfile
    \/ ReadMetadata
    \/ DocsOrLockfile
    \/ SpawnCargo
    \/ CargoWrite
    \/ CargoClose
    \/ CargoExit
    \/ ReadMessage
    \/ EndOfStream
    \/ WaitCargo
    \/ RemoveLockfile
    \/ Examine
    \/ CompileTest
    \/ RunTest
    \/ LoopEnd
    \/ Flush

Spec == Init /\ [][Next]_vars

\* the steps of the cargo rustc child, which runs beside run()
CargoStep == CargoWrite \/ CargoClose \/ CargoExit

\* the steps of run() itself, one blocking call after the other
RunStep ==
    \/ Gate \/ StageOutDir \/ CreateLogfile \/ ReadMetadata \/ DocsOrLockfile
    \/ SpawnCargo \/ ReadMessage \/ EndOfStream \/ WaitCargo \/ RemoveLockfile
    \/ Examine \/ CompileTest \/ RunTest \/ LoopEnd \/ Flush

\* every subprocess terminates and both processes are scheduled: the child
\* writes, closes and exits when it can, and run() continues whenever the
\* call it is in can return
FairSpec == Spec /\ WF_vars(CargoStep) /\ WF_vars(RunStep)

-----------------------------------------------------------------------------
(* Vocabulary of the properties *)

Range(q) == {q[i] : i \in DOMAIN q}

\* a run that passed the gate and is not a documentation run
NormalRun == env.CONF_TEST_INHIBIT = "absent" /\ ~env.DOCS_RS

\* CARGO_FEATURE_<uppercased f> is present in the environment
ManualOverride(f) == \E v \in env.CARGO_FEATURE : v = to_uppercase(f)

\* positions of the history with a given step for feature f
At(op, f) == {i \in DOMAIN trace : trace[i].op = op /\ trace[i].f = f}
AtOk(op, f) == {i \in At(op, f) : trace[i].ok}
AtFailed(op, f) == {i \in At(op, f) : ~trace[i].ok}
Compilations == {i \in DOMAIN trace : trace[i].op = "compile"}
Before(S, i) == {k \in S : k < i}

\* number of elements of outputs that are the line k for feature f, formatted
\* by run() itself
Generated(k, f) == Cardinality({i \in DOMAIN outputs : outputs[i] = Own(k, f)})
\* number of lines k for feature f on standard output, whoever wrote them
Emitted(k, f) ==
    Cardinality({i \in DOMAIN stdout : stdout[i].k = k /\ stdout[i].f = f})
\* the same, counting only the lines run() formatted itself
EmittedOwn(k, f) ==
    Cardinality({i \in DOMAIN stdout : stdout[i] = Line(k, f, "conf_test")})

-----------------------------------------------------------------------------
(* C1: for every probe compilation of a feature F, no feature that sorts     *)
(* before F and ended probed-absent or probed-failed is among the feature    *)
(* flags passed to the compilation.                                          *)
C1_NoAbsentOrFailedFlag ==
    \A i \in Compilations :
      \A G \in Range(trace[i].cfg) :
        /\ Before(At("absent", G), i) = {}
        /\ Before(AtFailed("compile", G), i) = {}
        /\ Before(AtFailed("run", G), i) = {}

-----------------------------------------------------------------------------
-----------------------------------------------------------------------------
(* C3: a feature whose probe compiled and exited zero is among the flags of *)
(* every probe compiled after it in the same run.                           *)
C3_EnabledVisibleLater ==
    \A i \in Compilations :
      \A G \in FeatureNames :
        Before(AtOk("run", G), i) # {} => G \in Range(trace[i].cfg)

C3_Witness ==
    \E i \in Compilations :
      \E G \in FeatureNames : Before(AtOk("run", G), i) # {} /\ trace[i].ok

-----------------------------------------------------------------------------
(* C4: a probe that fails to compile, to start or to exit zero does not     *)
(* abort the run: the step leaves the process running in the loop with the  *)
(* remaining features untouched; a run that returns has examined every      *)
(* declared feature, has generated the enable directive of every probe that *)
(* succeeded, and has flushed all diagnostics.                              *)
FailedProbeStep ==
    /\ Len(trace') = Len(trace) + 1
    /\ trace'[Len(trace')].op \in {"compile", "run"}
    /\ ~trace'[Len(trace')].ok

Examined(f) == At("manual", f) \cup At("absent", f) \cup At("exists", f)

C4_FailureIsIsolated ==
    /\ [][FailedProbeStep =>
            (status' = "running" /\ pc' = "loop" /\ todo' = todo)]_vars
    /\ []((NormalRun /\ status = "returned") =>
            /\ \A f \in features : Cardinality(Examined(f)) = 1
            /\ \A f \in features : AtOk("run", f) # {} => EmittedOwn("cfg", f) = 1
            /\ stdout = Flatten(outputs)
            /\ logfile = Flatten(outputs))

C4_Witness ==
    /\ NormalRun /\ status = "returned"
    /\ \E f, g \in features :
         /\ LexLess(f, g)
         /\ AtFailed("compile", f) \cup AtFailed("run", f) # {}
         /\ AtOk("run", g) # {}

-----------------------------------------------------------------------------
(* C5: features are handled in strictly ascending lexical order, one at a   *)
(* time: in the history the steps of a feature (examination, compilation,   *)
(* run) come in that order, each at most once, and all steps of a feature   *)
(* come before every step of a feature that sorts after it.                 *)
LoopSteps ==
    {i \in DOMAIN trace : trace[i].op \in {"manual", "absent", "exists", "compile", "run"}}

Rank(op) == CASE op = "compile" -> 2 [] op = "run" -> 3 [] OTHER -> 1

C5_SortedOneAtATime ==
    /\ \A i, j \in LoopSteps :
         i < j =>
           IF trace[i].f = trace[j].f
           THEN Rank(trace[i].op) < Rank(trace[j].op)
           ELSE LexLess(trace[i].f, trace[j].f)
    /\ pc \in {"compile", "run"} =>
         /\ LoopSteps # {}
         /\ \A i \in LoopSteps : trace[i].f = feature \/ LexLess(trace[i].f, feature)
         /\ \A g \in todo : LexLess(feature, g)

C5_Witness ==
    \E i, j \in LoopSteps :
      /\ i < j
      /\ trace[i].op = "run" /\ trace[j].op = "run"
      /\ trace[i].f = NameA /\ trace[j].f = Name_a

-----------------------------------------------------------------------------
(* C6: the compiler is invoked for F only if F is not manually-set and the  *)
(* existence check of conf_tests/<F>.rs succeeded; a probe is executed only *)
(* after its own compilation succeeded; a feature found absent or manually  *)
(* set is neither compiled nor executed.                                    *)
C6_ProbeOnlyWhenDue ==
    /\ \A i \in DOMAIN trace :
         /\ trace[i].op = "compile" =>
              /\ ~ManualOverride(trace[i].f)
              /\ Before(At("exists", trace[i].f), i) # {}
         /\ trace[i].op = "run" =>
              Before(AtOk("compile", trace[i].f), i) # {}
    /\ \A f \in FeatureNames :
         (ManualOverride(f) \/ At("absent", f) # {}) =>
            At("compile", f) \cup At("run", f) = {}

C6_Witness ==
    /\ status = "returned"
    /\ At("absent", NameA) # {}
    /\ AtOk("run", Name_a) # {}
    /\ At("manual", NameDocsRs) # {}

-----------------------------------------------------------------------------
(* C7 as stated: in a non-documentation run that returned, an enable        *)
(* directive for F is on standard output exactly once if F's probe compiled *)
(* and exited zero, and not at all otherwise.                               *)
C7_DirectiveIffProbeSucceeded ==
    (NormalRun /\ status = "returned") =>
       \A f \in FeatureNames :
         Emitted("cfg", f) = IF AtOk("run", f) # {} THEN 1 ELSE 0

(* C7 amended: in a non-documentation run, run() itself generates the       *)
(* enable directive for F exactly once if F's probe compiled and exited     *)
(* zero and never otherwise; the captured stdout of that probe is the       *)
(* element directly after the directive; nothing a failed probe printed is  *)
(* in the diagnostics; a run that returns has emitted exactly these lines.  *)
OwnChunk(c) == Len(c) = 1 /\ c[1].by = "conf_test"

C7_OwnDirectiveIffProbeSucceeded ==
    NormalRun =>
      /\ \A f \in FeatureNames :
           Generated("cfg", f) = IF AtOk("run", f) # {} THEN 1 ELSE 0
      /\ \A i \in DOMAIN outputs :
           \A f \in FeatureNames :
             outputs[i] = Own("cfg", f) =>
               /\ i + 1 <= Len(outputs)
               /\ \E k \in AtOk("run", f) : outputs[i + 1] = trace[k].out
      /\ \A i \in DOMAIN outputs :
           ~OwnChunk(outputs[i]) =>
             /\ i > 1
             /\ \E f \in FeatureNames : outputs[i - 1] = Own("cfg", f)
      /\ status = "returned" =>
           /\ stdout = Flatten(outputs)
           /\ \A f \in FeatureNames : EmittedOwn("cfg", f) = Generated("cfg", f)

C7_Witness ==
    /\ NormalRun /\ status = "returned"
    /\ EmittedOwn("cfg", NameA) = 1
    /\ Emitted("cfg", Name_a) = 1
    /\ At("absent", Name_a) # {}
    /\ \E k \in AtFailed("run", NameDocsRs) : trace[k].out # <<>>

-----------------------------------------------------------------------------
-----------------------------------------------------------------------------
(* C9: every step of the feature loop keeps what the accumulated feature    *)
(* set held: test_features before a step is a prefix of test_features after *)
(* it.                                                                      *)
IsPrefix(p, q) == Len(p) <= Len(q) /\ SubSeq(q, 1, Len(p)) = p

C9_Monotonic == [][IsPrefix(test_features, test_features')]_vars

C9_Witness ==
    /\ Len(test_features) >= 3
    /\ Cardinality(Range(test_features)) >= 2

-----------------------------------------------------------------------------
(* C10: with CONF_TEST_INHIBIT=skip the run returns to its caller having    *)
(* printed exactly one informational line and no directive, without a       *)
(* metadata query, an artifact resolution, a compilation or an execution.   *)
C10_SkipReturnsAtOnce ==
    env.CONF_TEST_INHIBIT = "skip" =>
      /\ trace = <<>>
      /\ outputs = <<>>
      /\ status \in {"running", "returned"}
      /\ \A i \in DOMAIN stdout : stdout[i].k \notin {"cfg", "rerun"}
      /\ IF status = "returned"
         THEN stdout = Own("warning_skip", NoFeature) /\ pc = "done"
         ELSE stdout = <<>> /\ pc = "gate"

C10_Witness ==
    /\ env.CONF_TEST_INHIBIT = "skip"
    /\ status = "returned"
    /\ Len(stdout) = 1

-----------------------------------------------------------------------------
(* C11: with CONF_TEST_INHIBIT=stop the process exits with status 0 having  *)
(* printed nothing and buffered nothing, and no metadata query, artifact    *)
(* resolution, probe compilation or probe execution has taken place.        *)
C11_StopExitsSilently ==
    env.CONF_TEST_INHIBIT = "stop" =>
      /\ trace = <<>>
      /\ outputs = <<>>
      /\ stdout = <<>>
      /\ logfile \in {<<>>, StaleLog}
      /\ status \in {"running", "exit0"}
      /\ IF status = "exit0" THEN pc = "done" ELSE pc = "gate"

C11_Witness ==
    /\ env.CONF_TEST_INHIBIT = "stop"
    /\ status = "exit0"
    /\ pc = "done"

-----------------------------------------------------------------------------
(* C12: with CONF_TEST_INHIBIT=fail the process exits with status 1, with   *)
(* any value other than skip, stop or fail it panics; either way the gate   *)
(* is the only step taken: no metadata query, no compilation, no execution, *)
(* and no enable-feature directive on standard output.                      *)
C12_FailAndUnknownStopAtGate ==
    /\ env.CONF_TEST_INHIBIT = "fail" =>
         /\ status \in {"running", "exit1"}
         /\ IF status = "exit1"
            THEN pc = "done" /\ stdout = Own("warning_fail", NoFeature)
            ELSE pc = "gate" /\ stdout = <<>>
    /\ env.CONF_TEST_INHIBIT \notin {"absent", "skip", "stop", "fail"} =>
         /\ status \in {"running", "panic"}
         /\ IF status = "panic" THEN pc = "done" ELSE pc = "gate"
         /\ stdout = <<>>
    /\ env.CONF_TEST_INHIBIT \notin {"absent", "skip", "stop"} =>
         /\ trace = <<>>
         /\ outputs = <<>>
         /\ \A f \in FeatureNames : Emitted("cfg", f) = 0

C12_WitnessFail ==
    /\ env.CONF_TEST_INHIBIT = "fail"
    /\ status = "exit1"

C12_Witness ==
    /\ env.CONF_TEST_INHIBIT \notin {"absent", "skip", "stop", "fail"}
    /\ status = "panic"

-----------------------------------------------------------------------------
(* C13: in a run with DOCS_RS set and no inhibition, cargo rustc is never   *)
(* spawned, no probe is compiled or run and no feature is examined by the   *)
(* loop; the only cfg directive generated or printed is the one for         *)
(* docs_rs, and it is generated (and, when the run returns, printed)        *)
(* exactly when docs_rs is among the declared features.                     *)
DocsRun == env.CONF_TEST_INHIBIT = "absent" /\ env.DOCS_RS

DocsDeclared == IF NameDocsRs \in features THEN 1 ELSE 0

C13_DocsModeOnlyDocsRs ==
    DocsRun =>
      /\ \A i \in DOMAIN trace : trace[i].op = "metadata"
      /\ cargo = "none" /\ pipe = <<>>
      /\ pc \in {"gate", "out_dir", "logfile", "metadata", "docs", "flush", "done"}
      /\ test_features = <<>>
      /\ \A f \in FeatureNames \ {NameDocsRs} :
           Generated("cfg", f) = 0 /\ Emitted("cfg", f) = 0
      /\ Generated("cfg", NameDocsRs) =
           IF Generated("docs_rs", NoFeature) = 1 THEN DocsDeclared ELSE 0
      /\ pc = "flush" \/ status = "returned" => Generated("docs_rs", NoFeature) = 1
      /\ Emitted("cfg", NameDocsRs) <= Generated("cfg", NameDocsRs)
      /\ status = "returned" => Emitted("cfg", NameDocsRs) = DocsDeclared

C13_Witness ==
    /\ DocsRun
    /\ status = "returned"
    /\ features = {Name_a, NameDocsRs}
    /\ Emitted("cfg", NameDocsRs) = 1
    /\ Emitted("cfg", Name_a) = 0

-----------------------------------------------------------------------------
(* C14: at the end of every run, whichever path it took, the lines the run  *)
(* wrote to the log file are the lines it wrote to standard output, in the  *)
(* same order.  As stated this fails for skip and fail, whose line goes to  *)
(* standard output only.                                                    *)
LogOfThisRun == SelectSeq(logfile, LAMBDA l : l.k # "stale")

C14_LogEqualsStdoutAtEveryEnd ==
    pc = "done" => LogOfThisRun = stdout

(* C14, amended: in a run that passes the gate the log file and standard    *)
(* output always hold the same lines, a prefix of the buffered lines in     *)
(* generation order, and all of them in a fresh log once the run returns;   *)
(* the line printed by skip or fail is written to standard output only and  *)
(* the log file is left as it was.                                          *)
C14_LogEqualsStdoutPastGate ==
    /\ env.CONF_TEST_INHIBIT = "absent" =>
         /\ LogOfThisRun = stdout
         /\ IsPrefix(stdout, Flatten(outputs))
         /\ stdout = Flatten(SubSeq(outputs, 1, flushed))
         /\ status = "returned" => logfile = stdout /\ stdout = Flatten(outputs)
    /\ env.CONF_TEST_INHIBIT \in {"skip", "fail"} /\ pc = "done" =>
         /\ Len(stdout) = 1
         /\ logfile \in {<<>>, StaleLog}

C14_Witness ==
    /\ env.CONF_TEST_INHIBIT = "absent"
    /\ status = "returned"
    /\ logfile = stdout
    /\ \E i, j \in DOMAIN stdout :
         i < j /\ stdout[i].k = "rerun" /\ stdout[j].by = "probe"

-----------------------------------------------------------------------------
(* C15: the mapping holds one entry per file stem, every entry's name is in *)
(* the dependency set, and after an artifact message with a name in the     *)
(* dependency set has been consumed, every file it reported has an entry    *)
(* under its stem whose kind is at least as high as the file's own          *)
(* (rlib > rmeta > other); an entry is never lost or replaced by one of a   *)
(* lower kind, so the outcome does not depend on the order of arrival.      *)
Priority(ext) == CASE ext = "rlib" -> 3 [] ext = "rmeta" -> 2 [] OTHER -> 1

ConsumedArtifact ==
    /\ pc = "read" /\ pipe # <<>> /\ pipe' = Tail(pipe)
    /\ status' = "running"
    /\ Head(pipe).type = "artifact"
    /\ Head(pipe).name \in dependencies

C15_HighestPriorityRetained ==
    /\ [](\A id \in DOMAIN extern_libs :
            /\ extern_libs[id].name \in dependencies
            /\ extern_libs[id].file.stem = id)
    /\ [][\A id \in DOMAIN extern_libs :
            id \in DOMAIN extern_libs' =>
              Priority(extern_libs'[id].file.ext) >= Priority(extern_libs[id].file.ext)]_vars
    /\ [][ConsumedArtifact =>
            \A i \in DOMAIN Head(pipe).filenames :
              LET file == Head(pipe).filenames[i] IN
                /\ file.stem \in DOMAIN extern_libs'
                /\ Priority(extern_libs'[file.stem].file.ext) >= Priority(file.ext)]_vars

-----------------------------------------------------------------------------
(* C16: when cargo rustc exits with a nonzero status, the run does not      *)
(* abort: get_extern_libs returns the mapping built from the messages read, *)
(* every later probe compilation is given that mapping, and the loop        *)
(* examines every declared feature as it does after a zero exit.            *)
CargoExitedNonzero ==
    /\ pc = "wait"
    /\ trace' = Append(trace, Did("cargo_exit", FALSE))

AfterNonzeroExit == \E i \in DOMAIN trace : trace[i] = Did("cargo_exit", FALSE)

C16_NonzeroExitTolerated ==
    /\ [][CargoExitedNonzero =>
            /\ status' = "running"
            /\ pc' = "unlock"
            /\ extern_libs' = extern_libs]_vars
    /\ [](AfterNonzeroExit =>
            /\ \A i \in Compilations : trace[i].libs = extern_libs
            /\ status = "returned" =>
                 \A f \in features : Cardinality(Examined(f)) = 1)

C16_Witness ==
    /\ status = "returned"
    /\ extern_libs # NoLibs
    /\ \E i, j, k \in DOMAIN trace :
         /\ i < j /\ j < k
         /\ trace[i] = Did("cargo_exit", FALSE)
         /\ trace[j].op = "compile" /\ trace[j].ok /\ trace[j].libs = extern_libs
         /\ trace[k].op = "run" /\ trace[k].ok

-----------------------------------------------------------------------------
(* C17: get_extern_libs reads cargo's output while cargo runs and calls     *)
(* wait only after the stream has ended: cargo blocked on a full pipe and   *)
(* the resolver blocked on an empty pipe or in wait never coincide, and     *)
(* once inside the resolver the run always leaves it (returns or panics).   *)
ProducerBlocked ==
    cargo = "running" /\ cargo_left > 0 /\ Len(pipe) >= PipeCapacity

ConsumerBlocked ==
    /\ status = "running"
    /\ \/ pc = "read" /\ pipe = <<>> /\ cargo = "running"
       \/ pc = "wait" /\ cargo # "exited"

InResolver == status = "running" /\ pc \in {"read", "wait"}

C17_NoMutualBlocking ==
    /\ [](~(ProducerBlocked /\ ConsumerBlocked))
    /\ [](pc = "wait" /\ status = "running" =>
            pipe = <<>> /\ cargo \in {"closed", "exited"})
    /\ InResolver ~> ~InResolver

C17_Witness ==
    /\ pc = "read" /\ status = "running"
    /\ extern_libs # NoLibs
    /\ cargo = "running" /\ cargo_left = 1
    /\ ConsumerBlocked /\ ~ProducerBlocked

-----------------------------------------------------------------------------
(* C18: given that every subprocess terminates, every run ends; the loop    *)
(* examines each declared feature once, compiles its probe at most once     *)
(* and runs it at most once, and nothing is written to the log file or to   *)
(* standard output by a run past the gate before the last feature has been  *)
(* processed.                                                               *)
Once(S) == Cardinality(S) <= 1

C18_SingleLinearPass ==
    /\ [](\A f \in FeatureNames :
            /\ Once(Examined(f))
            /\ Once(At("compile", f))
            /\ Once(At("run", f))
            /\ At("run", f) # {} => AtOk("compile", f) # {})
    /\ [](NormalRun /\ (pc = "flush" \/ status = "returned") =>
            \A f \in features : Cardinality(Examined(f)) = 1)
    /\ [](NormalRun /\ (stdout # <<>> \/ flushed > 0) =>
            /\ todo = {}
            /\ pc = "done"
            /\ \A f \in features : Cardinality(Examined(f)) = 1)
    /\ <>(pc = "done")

C18_Witness ==
    /\ NormalRun
    /\ status = "returned"
    /\ Cardinality(features) = 3
    /\ \E f, g \in features :
         /\ AtFailed("compile", f) # {}
         /\ AtFailed("run", g) # {}
    /\ stdout # <<>>

-----------------------------------------------------------------------------
(* C19: a run that aborts has written no cfg and no rerun-if-changed line   *)
(* to standard output or to the log file.  As stated this fails for a run   *)
(* that aborts inside the output loop, on a failed write to the log file.   *)
NoDirective(q) == \A i \in DOMAIN q : q[i].k \notin {"cfg", "rerun"}

C19_NoDirectiveInAbortedRun ==
    status = "panic" => NoDirective(stdout) /\ NoDirective(logfile)

(* C19, amended: past the gate a missing OUT_DIR or CARGO_MANIFEST_DIR, a   *)
(* failure to create the staging directory or the log file, a failed        *)
(* metadata query, a failed spawn of cargo rustc and an unparsable message  *)
(* each make the run panic, and a run that panics before the output loop    *)
(* has written nothing to standard output or to the log file; a run that    *)
(* panics inside the output loop has written the elements before the one    *)
(* that failed.                                                             *)
FatalCondition ==
    \/ pc = "out_dir" /\ (~env.OUT_DIR \/ pc' # "logfile")
    \/ pc = "logfile" /\ pc' # "metadata"
    \/ trace' = Append(trace, Did("metadata", FALSE))
    \/ pc = "docs" /\ ~env.DOCS_RS /\ ~env.CARGO_MANIFEST_DIR
    \/ trace' = Append(trace, Did("cargo_rustc", FALSE))
    \/ pc = "read" /\ pipe # <<>> /\ pipe' = Tail(pipe) /\ Head(pipe).type = "error"

C19_FatalAbortsBeforeOutput ==
    /\ [][FatalCondition => status' = "panic" /\ pc' = "done"]_vars
    /\ [][status' = "panic" /\ pc # "flush" =>
            stdout' = stdout /\ logfile' \in {logfile, <<>>} /\ flushed' = 0]_vars
    /\ [](status = "panic" /\ env.CONF_TEST_INHIBIT = "absent" =>
            /\ LogOfThisRun = stdout
            /\ stdout = Flatten(SubSeq(outputs, 1, flushed))
            /\ flushed < Len(outputs) \/ outputs = <<>>)

C19_Witness ==
    /\ status = "panic"
    /\ \E i \in DOMAIN trace : trace[i] = Did("cargo_rustc", FALSE)
    /\ Len(outputs) >= 2
    /\ stdout = <<>> /\ logfile = <<>>

-----------------------------------------------------------------------------
(* C20: Cargo.lock is left as found: when it was absent at the check, none  *)
(* exists when the feature loop starts; when it was present it is never     *)
(* removed; a run that stops at the gate or runs under DOCS_RS neither      *)
(* checks nor removes it.  As stated the first part fails when remove_file  *)
(* fails, which the code only logs.                                         *)
InLoopPhase == NormalRun /\ pc \in {"loop", "compile", "run", "flush"}

LockfileRemoved == fs_lock /\ ~fs_lock'

UntouchedOffThePath ==
    ~NormalRun =>
      /\ Generated("lockfile", NoFeature) = 0
      /\ Generated("delete_lockfile_ok", NoFeature) = 0
      /\ Generated("delete_lockfile_failed", NoFeature) = 0
      /\ ~lockfile_exists

C20_LockfileLeftAsFound ==
    /\ [](InLoopPhase /\ ~lockfile_exists => ~fs_lock)
    /\ [](InLoopPhase /\ lockfile_exists => fs_lock)
    /\ [][LockfileRemoved => pc = "unlock" /\ ~lockfile_exists]_vars
    /\ []UntouchedOffThePath
    /\ [][~NormalRun => fs_lock' = fs_lock]_vars

(* C20, amended: when Cargo.lock was absent at the check the run attempts   *)
(* its removal once after artifact resolution and logs the result, and a    *)
(* Cargo.lock exists when the loop starts only if that removal failed; when *)
(* it was present it is never removed and no removal is attempted; a run    *)
(* that stops at the gate or runs under DOCS_RS neither checks nor removes. *)
C20_LockfileRemovedUnlessFailed ==
    /\ [](InLoopPhase /\ ~lockfile_exists =>
            /\ Generated("delete_lockfile_ok", NoFeature)
                 + Generated("delete_lockfile_failed", NoFeature) = 1
            /\ fs_lock => Generated("delete_lockfile_failed", NoFeature) = 1)
    /\ [](InLoopPhase /\ lockfile_exists =>
            /\ fs_lock
            /\ Generated("delete_lockfile_ok", NoFeature) = 0
            /\ Generated("delete_lockfile_failed", NoFeature) = 0)
    /\ [][LockfileRemoved =>
            /\ pc = "unlock" /\ ~lockfile_exists
            /\ Generated("delete_lockfile_ok", NoFeature)' = 1]_vars
    /\ []UntouchedOffThePath
    /\ [][~NormalRun => fs_lock' = fs_lock]_vars

C20_Witness ==
    /\ InLoopPhase
    /\ ~lockfile_exists /\ ~fs_lock
    /\ Generated("delete_lockfile_ok", NoFeature) = 1

====
